---- MODULE Spec2Model ----
(***************************************************************************)
(* Model of pyms/flask/services/metrics.py: the Flask request hooks of     *)
(* FlaskMetricsWrapper, the /metrics view of Service and the logging       *)
(* handler MetricsLogHandler, working on the three module-level            *)
(* instruments.  The metrics library and the Flask dispatcher are the      *)
(* environment: a registry call or a render call may raise, hooks of       *)
(* different requests interleave, and an earlier before_request hook may   *)
(* answer a request before this module's hook has run.                     *)
(***************************************************************************)
EXTENDS Integers, Sequences, FiniteSets, TLC

\* ---- bounds ----
MaxRequests == 2
MaxTime == 1
MaxLogs == 2
MaxScrapes == 2

Requests == 1..MaxRequests
Times == 0..MaxTime
ScrapeRequests == 1..MaxScrapes
\* every request context of the model
Contexts == Requests \cup ScrapeRequests

\* ---- inputs ----
\* (method, path) of the requests sent to the application
Targets == {<<"GET", "/items/42">>, <<"GET", "/unknown/path">>,
            <<"GET", "/metrics">>, <<"POST", "/metrics">>}
\* the traffic around a scraper
ScrapeTargets == {<<"GET", "/items/42">>, <<"GET", "/metrics">>}
ServiceNames == {"orders", "billing"}
LevelNames == {"INFO", "WARNING"}
\* the name given to Service.monitor
app_name == "orders"

\* ---- python objects ----
\* None has no attributes; a werkzeug Rule carries the pattern in .rule
None == [none |-> TRUE]
Rule(pattern) == [rule |-> pattern]
hasattr(obj, name) == name \in DOMAIN obj

\* str() of the status codes the model uses
str(code) ==
  CASE code = 200 -> "200"
    [] code = 403 -> "403"
    [] code = 404 -> "404"
    [] code = 405 -> "405"
    [] code = 500 -> "500"

\* a dict or an instrument without entries
Empty == [x \in {} |-> 0]
Put(f, k, v) == [x \in DOMAIN f \cup {k} |-> IF x = k THEN v ELSE f[x]]

\* value of a counter for a label set (0 until first add)
CounterValue(counter, labels) ==
  IF labels \in DOMAIN counter THEN counter[labels] ELSE 0
\* observations of a value recorder for a label set
Observations(recorder, labels) ==
  IF labels \in DOMAIN recorder THEN recorder[labels] ELSE <<>>

\* Counter.add(value, labels)
add(counter, value, labels) ==
  Put(counter, labels, CounterValue(counter, labels) + value)
\* ValueRecorder.record(value, labels)
record(recorder, value, labels) ==
  Put(recorder, labels, Append(Observations(recorder, labels), value))

VARIABLES
  now,                    \* time.time()
  pc,                     \* position of each request in its lifecycle
  request,                \* method, path and url_rule of each request
  start_time,             \* the start_time attribute, per request context
  began,                  \* the time at which before_request ran for a request
  response,               \* the response given to after_request
  returned,               \* the response after_request returned
  FLASK_REQUEST_LATENCY,
  FLASK_REQUEST_COUNT,
  LOGGER_TOTAL_MESSAGES,
  handlers,               \* app_name of the attached MetricsLogHandlers
  emitted,                \* number of emit calls so far
  emit_outcome,           \* how the last emit call ended
  logged,                 \* the handler and level of the last emit call
  lastBody,               \* payload seen by the last /metrics view
  prevBody,               \* payload of the view before it, when nothing but
                          \* scrapes happened between the two (else None)
  quiet                   \* no other request or log record since the last view

instruments == <<FLASK_REQUEST_LATENCY, FLASK_REQUEST_COUNT, LOGGER_TOTAL_MESSAGES>>
vars == <<now, pc, request, start_time, began, response, returned,
          FLASK_REQUEST_LATENCY, FLASK_REQUEST_COUNT, LOGGER_TOTAL_MESSAGES,
          handlers, emitted, emit_outcome, logged, lastBody, prevBody, quiet>>

\* ---- routing of the application (url map) ----
\* /metrics accepts GET only; /items/<id> accepts GET and POST
url_rule_of(method, path) ==
  IF path = "/metrics" /\ method = "GET" THEN Rule("/metrics")
  ELSE IF path = "/items/42" THEN Rule("/items/<id>")
  ELSE None

IsScrape(r) == pc[r] # "idle" /\ request[r].url_rule = Rule("/metrics")

\* ---- FlaskMetricsWrapper ----
\* request is context-local: the attribute lives on the request of the caller
StartTimeSlotShared(r) == 0
StartTimeSlot(r) == r

UriLabelPath(req) == req.path
UriLabelEndpoint(req) ==
  IF hasattr(req.url_rule, "rule") THEN "endpoint" ELSE req.path
UriLabel(req) ==
  IF hasattr(req.url_rule, "rule") THEN req.url_rule.rule ELSE req.path

Labels(req, resp) ==
  [service |-> app_name,
   method |-> req.method,
   uri |-> UriLabel(req),
   status |-> str(resp.status_code)]

RequestLatency(r) == now - start_time[StartTimeSlot(r)]

\* FLASK_REQUEST_LATENCY.record(request_latency, labels)
ObserveLatency(recorder, request_latency, labels) ==
  record(recorder, request_latency, labels)
\* FLASK_REQUEST_COUNT.add(1, labels)
CountRequestTwice(counter, labels) == add(counter, 2, labels)
CountRequest(counter, labels) == add(counter, 1, labels)

after_request_return_ok(resp) == [resp EXCEPT !.status_code = 200]
after_request_return(resp) == resp

\* ---- Service.serve_metrics ----
generate_latest ==
  [latency |-> FLASK_REQUEST_LATENCY,
   count |-> FLASK_REQUEST_COUNT,
   logs |-> LOGGER_TOTAL_MESSAGES]

\* werkzeug Response: an explicit content_type wins over mimetype,
\* the status defaults to 200
ResponseMimetype(body, mimetype, content_type) ==
  [status_code |-> 200, content_type |-> mimetype, body |-> body]
Response(body, mimetype, content_type) ==
  [status_code |-> 200, content_type |-> content_type, body |-> body]

metrics_view ==
  Response(generate_latest, "text/print()lain", "text/plain; charset=utf-8")

\* what the dispatcher makes of an exception leaving a view
InternalServerError ==
  [status_code |-> 500, content_type |-> "text/html; charset=utf-8", body |-> "error"]
AppResponse(code) ==
  [status_code |-> code, content_type |-> "text/html; charset=utf-8", body |-> "app"]
NoResponse == [status_code |-> 0, content_type |-> "", body |-> ""]

\* ---- MetricsLogHandler ----
EmitLabelsInfo(name, levelname) == [service |-> name, level |-> "INFO"]
EmitLabels(name, levelname) == [service |-> name, level |-> levelname]

Init ==
  /\ now = 0
  /\ pc = [r \in Contexts |-> "idle"]
  /\ request = [r \in Contexts |-> [method |-> "GET", path |-> "/metrics", url_rule |-> None]]
  /\ start_time = Empty
  /\ began = [r \in Contexts |-> -1]
  /\ response = [r \in Contexts |-> NoResponse]
  /\ returned = [r \in Contexts |-> NoResponse]
  /\ FLASK_REQUEST_LATENCY = Empty
  /\ FLASK_REQUEST_COUNT = Empty
  /\ LOGGER_TOTAL_MESSAGES = Empty
  /\ handlers = {}
  /\ emitted = 0
  /\ emit_outcome = "none"
  /\ logged = None
  /\ lastBody = None
  /\ prevBody = None
  /\ quiet = FALSE

Tick ==
  /\ now < MaxTime
  /\ now' = now + 1
  /\ UNCHANGED <<pc, request, start_time, began, response, returned,
                 instruments, handlers, emitted, emit_outcome, logged, lastBody, prevBody, quiet>>

\* a request reaches the application and is routed
Arrive(r, targets) ==
  /\ pc[r] = "idle"
  /\ \A q \in Requests : q < r => pc[q] # "idle"
  /\ \E t \in targets :
       request' = [request EXCEPT ![r] =
                     [method |-> t[1], path |-> t[2], url_rule |-> url_rule_of(t[1], t[2])]]
  /\ pc' = [pc EXCEPT ![r] = "routed"]
  /\ quiet' = (quiet /\ request'[r].url_rule = Rule("/metrics"))
  /\ UNCHANGED <<now, start_time, began, response, returned,
                 instruments, handlers, emitted, emit_outcome, logged, lastBody, prevBody>>

before_request(r) ==
  /\ pc[r] = "routed"
  /\ start_time' = Put(start_time, StartTimeSlot(r), now)
  /\ began' = [began EXCEPT ![r] = now]
  /\ pc' = [pc EXCEPT ![r] = "started"]
  /\ UNCHANGED <<now, request, response, returned,
                 instruments, handlers, emitted, emit_outcome, logged, lastBody, prevBody, quiet>>

\* a before_request hook registered ahead of Service.monitor's answers the
\* request: the remaining before_request hooks are skipped, after_request runs
ShortCircuit(r) ==
  /\ pc[r] = "routed"
  /\ response' = [response EXCEPT ![r] = AppResponse(403)]
  /\ pc' = [pc EXCEPT ![r] = "handled"]
  /\ UNCHANGED <<now, request, start_time, began, returned,
                 instruments, handlers, emitted, emit_outcome, logged, lastBody, prevBody, quiet>>

\* the application's own views and the routing errors
Dispatch(r) ==
  /\ pc[r] = "started"
  /\ request[r].url_rule # Rule("/metrics")
  /\ response' = [response EXCEPT ![r] =
       IF request[r].url_rule = None
       THEN AppResponse(IF request[r].path = "/metrics" THEN 405 ELSE 404)
       ELSE AppResponse(200)]
  /\ pc' = [pc EXCEPT ![r] = "handled"]
  /\ UNCHANGED <<now, request, start_time, began, returned,
                 instruments, handlers, emitted, emit_outcome, logged, lastBody, prevBody, quiet>>

\* GET /metrics: the view registered by serve_metrics
metrics(r) ==
  /\ pc[r] = "started"
  /\ request[r].url_rule = Rule("/metrics")
  /\ \E renderOk \in BOOLEAN :
       response' = [response EXCEPT ![r] =
         IF renderOk THEN metrics_view ELSE InternalServerError]
  /\ lastBody' = generate_latest
  /\ prevBody' = IF quiet THEN lastBody ELSE None
  /\ quiet' = TRUE
  /\ pc' = [pc EXCEPT ![r] = "handled"]
  /\ UNCHANGED <<now, request, start_time, began, returned,
                 instruments, handlers, emitted, emit_outcome, logged>>

\* the request context is popped once after_request has run
Teardown(f, r, blank) == [f EXCEPT ![r] = blank]
Pop(f, k) == [x \in DOMAIN f \ {k} |-> f[x]]
NoRequest == [method |-> "GET", path |-> "/metrics", url_rule |-> None]

after_request(r) ==
  /\ pc[r] = "handled"
  /\ quiet' = (quiet /\ IsScrape(r))
  /\ IF ~(StartTimeSlot(r) \in DOMAIN start_time)
     THEN /\ pc' = [pc EXCEPT ![r] = "AttributeError"]
          /\ UNCHANGED <<instruments, returned>>
     ELSE LET labels == Labels(request[r], response[r])
              request_latency == RequestLatency(r)
          IN \E failing \in {"none", "record", "add"} :
               CASE failing = "record" ->
                      /\ pc' = [pc EXCEPT ![r] = "RegistryError"]
                      /\ UNCHANGED <<instruments, returned>>
                 [] failing = "add" ->
                      /\ FLASK_REQUEST_LATENCY' =
                           ObserveLatency(FLASK_REQUEST_LATENCY, request_latency, labels)
                      /\ pc' = [pc EXCEPT ![r] = "RegistryError"]
                      /\ UNCHANGED <<FLASK_REQUEST_COUNT, LOGGER_TOTAL_MESSAGES, returned>>
                 [] failing = "none" ->
                      /\ FLASK_REQUEST_LATENCY' =
                           ObserveLatency(FLASK_REQUEST_LATENCY, request_latency, labels)
                      /\ FLASK_REQUEST_COUNT' = CountRequest(FLASK_REQUEST_COUNT, labels)
                      /\ returned' = [returned EXCEPT ![r] = after_request_return(response[r])]
                      /\ pc' = [pc EXCEPT ![r] = "done"]
                      /\ UNCHANGED LOGGER_TOTAL_MESSAGES
  /\ request' = Teardown(request, r, NoRequest)
  /\ response' = Teardown(response, r, NoResponse)
  /\ began' = Teardown(began, r, -1)
  /\ start_time' = Pop(start_time, StartTimeSlot(r))
  /\ UNCHANGED <<now, handlers, emitted, emit_outcome, logged, lastBody, prevBody>>

add_logger_handler(service_name) ==
  /\ service_name \notin handlers
  /\ handlers' = handlers \cup {service_name}
  /\ UNCHANGED <<now, pc, request, start_time, began, response, returned,
                 instruments, emitted, emit_outcome, logged, lastBody, prevBody, quiet>>

emit(h, levelname) ==
  /\ emitted < MaxLogs
  /\ emitted' = emitted + 1
  /\ logged' = [handler |-> h, levelname |-> levelname]
  /\ quiet' = FALSE
  /\ \E ok \in BOOLEAN :
       IF ok
       THEN /\ LOGGER_TOTAL_MESSAGES' =
                 add(LOGGER_TOTAL_MESSAGES, 1, EmitLabels(h, levelname))
            /\ emit_outcome' = "returned"
       ELSE /\ emit_outcome' = "raised"
            /\ UNCHANGED LOGGER_TOTAL_MESSAGES
  /\ UNCHANGED <<now, pc, request, start_time, began, response, returned,
                 FLASK_REQUEST_LATENCY, FLASK_REQUEST_COUNT, handlers, lastBody, prevBody>>

\* the request lifecycle, hooks of concurrent requests interleaving
Next ==
  \/ Tick
  \/ \E r \in Requests : Arrive(r, Targets)
  \/ \E r \in Requests : before_request(r)
  \/ \E r \in Requests : ShortCircuit(r)
  \/ \E r \in Requests : Dispatch(r)
  \/ \E r \in Requests : metrics(r)
  \/ \E r \in Requests : after_request(r)

\* logging through the attached handlers, around one request
NextLogging ==
  \/ Arrive(1, Targets)
  \/ before_request(1)
  \/ Dispatch(1)
  \/ after_request(1)
  \/ \E s \in ServiceNames : add_logger_handler(s)
  \/ \E h \in handlers, l \in LevelNames : emit(h, l)

\* a scraper polling /metrics next to application traffic and logging
NextScraping ==
  \/ \E r \in ScrapeRequests : Arrive(r, ScrapeTargets)
  \/ \E r \in ScrapeRequests : before_request(r)
  \/ \E r \in ScrapeRequests : Dispatch(r)
  \/ \E r \in ScrapeRequests : metrics(r)
  \/ \E r \in ScrapeRequests : after_request(r)
  \/ add_logger_handler(app_name)
  \/ \E h \in handlers : emit(h, "WARNING")

Spec == Init /\ [][Next]_vars
SpecScraping == Init /\ [][NextScraping]_vars
SpecLogging == Init /\ [][NextLogging]_vars

\* ---- properties ----
\* label sets whose value differs between two states of an instrument
ChangedCounts(old, new) ==
  {l \in DOMAIN old \cup DOMAIN new : CounterValue(old, l) # CounterValue(new, l)}
ChangedObservations(old, new) ==
  {l \in DOMAIN old \cup DOMAIN new : Observations(old, l) # Observations(new, l)}
\* after_request runs for r in this step / returns normally in this step
AfterRuns(r) == pc[r] = "handled" /\ pc'[r] # "handled"
AfterReturns(r) == pc[r] = "handled" /\ pc'[r] = "done"
\* the uri the documentation asks for: the route pattern, else the raw path
RouteResolved(r) == request[r].url_rule # None
ExpectedUri(r) ==
  IF RouteResolved(r) THEN request[r].url_rule.rule ELSE request[r].path
LabelKeys == {"service", "method", "uri", "status"}
ScrapeLabel(l) == l.method = "GET" /\ l.uri = "/metrics"

\* C1: every request whose before_request and after_request both ran to
\* completion adds exactly one latency observation and exactly 1 to the
\* request count, both under one label set with the keys service, method,
\* uri, status; no other label set of either instrument changes.
C1_OneObservationOneCount ==
  [][\A r \in Contexts : AfterReturns(r) =>
       \E l \in DOMAIN FLASK_REQUEST_COUNT' :
         /\ DOMAIN l = LabelKeys
         /\ CounterValue(FLASK_REQUEST_COUNT', l) = CounterValue(FLASK_REQUEST_COUNT, l) + 1
         /\ Len(Observations(FLASK_REQUEST_LATENCY', l)) =
              Len(Observations(FLASK_REQUEST_LATENCY, l)) + 1
         /\ SubSeq(Observations(FLASK_REQUEST_LATENCY', l), 1,
                   Len(Observations(FLASK_REQUEST_LATENCY, l))) =
              Observations(FLASK_REQUEST_LATENCY, l)
         /\ ChangedCounts(FLASK_REQUEST_COUNT, FLASK_REQUEST_COUNT') = {l}
         /\ ChangedObservations(FLASK_REQUEST_LATENCY, FLASK_REQUEST_LATENCY') = {l}]_vars
C1_Witness ==
  /\ \A r \in {1, 2} : pc[r] = "done"
  /\ \E l \in DOMAIN FLASK_REQUEST_COUNT : FLASK_REQUEST_COUNT[l] = 2

\* C2: whatever after_request writes to the registry carries as uri the
\* route pattern when a route was resolved and the raw request path when
\* none was; the uri is never empty and never a wildcard.
C2_UriIsRouteOrPath ==
  [][\A r \in Contexts : AfterRuns(r) =>
       \A l \in ChangedCounts(FLASK_REQUEST_COUNT, FLASK_REQUEST_COUNT')
                \cup ChangedObservations(FLASK_REQUEST_LATENCY, FLASK_REQUEST_LATENCY') :
         /\ l.uri = ExpectedUri(r)
         /\ l.uri \notin {"", "*", "/*"}]_vars
C2_Witness ==
  /\ \E l \in DOMAIN FLASK_REQUEST_COUNT : l.uri = "/items/<id>" /\ l.status = "200"
  /\ \E l \in DOMAIN FLASK_REQUEST_COUNT : l.uri = "/unknown/path" /\ l.status = "404"

\* C3: an emit call that returns adds exactly 1 to the log counter of the
\* handler's service and the record's level, and leaves every other
\* (service, level) pair and both request instruments unchanged.
C3_EmitCountsOnePair ==
  [][(emitted' = emitted + 1 /\ emit_outcome' = "returned") =>
       LET l == [service |-> logged'.handler, level |-> logged'.levelname]
       IN /\ CounterValue(LOGGER_TOTAL_MESSAGES', l) =
               CounterValue(LOGGER_TOTAL_MESSAGES, l) + 1
          /\ ChangedCounts(LOGGER_TOTAL_MESSAGES, LOGGER_TOTAL_MESSAGES') = {l}
          /\ UNCHANGED <<FLASK_REQUEST_LATENCY, FLASK_REQUEST_COUNT>>]_vars
C3_Witness ==
  /\ emit_outcome = "returned"
  /\ logged = [handler |-> "billing", levelname |-> "WARNING"]
  /\ CounterValue(LOGGER_TOTAL_MESSAGES, [service |-> "orders", level |-> "INFO"]) = 1
  /\ CounterValue(LOGGER_TOTAL_MESSAGES, [service |-> "billing", level |-> "WARNING"]) = 1
  /\ FLASK_REQUEST_COUNT # Empty

\* C4: with hooks of several requests interleaved, what after_request
\* records for a request carries that request's own method, uri and status
\* and the time elapsed since that request's own before_request.
C4_OwnLabelsOwnStartTime ==
  [][\A r \in Contexts : AfterRuns(r) =>
       \A l \in ChangedObservations(FLASK_REQUEST_LATENCY, FLASK_REQUEST_LATENCY') :
         /\ l.method = request[r].method
         /\ l.uri = ExpectedUri(r)
         /\ l.status = str(response[r].status_code)
         /\ LET obs == FLASK_REQUEST_LATENCY'[l]
            IN obs[Len(obs)] = now - began[r]]_vars
C4_Witness ==
  /\ pc[2] = "done"
  /\ pc[1] \in {"started", "handled"}
  /\ began[1] = 0
  /\ now = 1
  /\ \E l \in DOMAIN FLASK_REQUEST_LATENCY :
       /\ FLASK_REQUEST_LATENCY[l] = <<0>>
       /\ l.method # request[1].method

C6_MissingStartTimeHandled ==
  \A r \in Contexts : pc[r] # "AttributeError"

\* C7: a failing registry call inside after_request is swallowed and the
\* response is still returned.
C7_RegistryFailureSwallowed ==
  \A r \in Contexts : pc[r] # "RegistryError"

\* C8: emit never raises to the code that logged.
C8_EmitNeverRaises ==
  emit_outcome # "raised"

\* C9: the /metrics view answers 200 with content type
\* text/plain; charset=utf-8 and the rendered registry as body, or, when
\* rendering failed, with a 5xx response; never 200 with another body.
C9_ScrapeResponse ==
  [][\A r \in Contexts :
       (pc[r] = "started" /\ pc'[r] = "handled" /\ IsScrape(r)) =>
         \/ /\ response'[r].status_code = 200
            /\ response'[r].content_type = "text/plain; charset=utf-8"
            /\ response'[r].body = [latency |-> FLASK_REQUEST_LATENCY,
                                    count |-> FLASK_REQUEST_COUNT,
                                    logs |-> LOGGER_TOTAL_MESSAGES]
         \/ /\ response'[r].status_code \in 500..599
            /\ response'[r].body = "error"]_vars
C9_Witness ==
  /\ \E r \in Contexts :
       /\ pc[r] = "handled" /\ IsScrape(r)
       /\ response[r].status_code = 200
       /\ response[r].body.logs # Empty
  /\ \E r \in Contexts :
       pc[r] = "handled" /\ IsScrape(r) /\ response[r].status_code = 500

\* C10: the response after_request returns is the response it was given,
\* status code, headers and body unchanged, whatever the status.
C10_PassThrough ==
  [][\A r \in Contexts : AfterReturns(r) => returned'[r] = response[r]]_vars
C10_Witness ==
  /\ \E r \in Contexts : pc[r] = "done" /\ returned[r].status_code = 404
  /\ \E r \in Contexts : pc[r] = "done" /\ returned[r].status_code = 200

====
